---- MODULE Spec2Model ----
(***************************************************************************)
(* Model of the craft-beer order forecast functions.                       *)
(*                                                                         *)
(*   src/beer-forecast-function.py : get_order_recommendations (HTTP)      *)
(*   src/openweather-function.py   : collect_weather_data (timer)          *)
(*                                                                         *)
(* Calendar dates are day numbers counted from 2024-01-01 (a Monday), so   *)
(* that date.weekday() is the day number modulo 7.  A timestamp (entry     *)
(* "dt") is a number of hours counted from the same instant, local time.   *)
(* Temperatures and predictor outputs are fixed-point numbers in tenths.   *)
(* Dictionary keys are written in ASCII: "visitors" for the visitor-count  *)
(* model key, "cups" for the total-unit model key, "Mon"/"Thu" for the     *)
(* order day labels.                                                       *)
(***************************************************************************)
EXTENDS Integers, Sequences, FiniteSets

VARIABLES
    CUSTOMER_MODELS,              \* day-level predictors loaded at startup
    BEER_MODELS,                  \* item-level predictors loaded at startup
    pc,                           \* position of get_order_recommendations
    processed_dates,              \* normalizer loop: dates already taken
    forecast_data_list,           \* normalizer loop: per-day feature records
    daily_forecast_df,            \* enriched per-day records
    current_today_date,           \* datetime.now().date() of the run
    windows,                      \* order days and coverage windows of the run
    order_recommendations_output, \* list of emitted recommendations
    response,                     \* HTTP response of the run
    table,                        \* daily_weather_data rows (PostgreSQL)
    wpc,                          \* position of collect_weather_data
    today_date,                   \* collect_weather_data: today
    scanned,                      \* collect_weather_data: entries looked at
    target_weather_data,          \* collect_weather_data: today's noon sample
    lastRun                       \* collect_weather_data: how the run ended

pipelineVars == <<CUSTOMER_MODELS, BEER_MODELS, pc, processed_dates,
                  forecast_data_list, daily_forecast_df, current_today_date,
                  windows, order_recommendations_output, response>>
weatherVars == <<table, wpc, today_date, scanned, target_weather_data, lastRun>>
vars == <<pipelineVars, weatherVars>>

(***************************************************************************)
(* Bounds of the model.                                                    *)
(***************************************************************************)
\* first day number "today" may take, and how many consecutive days it ranges over
FirstToday == 21
NumTodays == 7
\* first day number a forecast sample may carry, and how many consecutive days
FirstSampleDay == 25
NumSampleDays == 7
\* how many consecutive days, from FirstSampleDay, the timer may fire on
NumTimerDays == 2

Todays == FirstToday .. (FirstToday + NumTodays - 1)
SampleDays == FirstSampleDay .. (FirstSampleDay + NumSampleDays - 1)
TimerDays == FirstSampleDay .. (FirstSampleDay + NumTimerDays - 1)
\* local hours of the 3-hourly samples that are modelled
SampleHours == {9, 12}
\* item identifiers whose model file may be present in the models directory
Items == {"IPA", "Lager"}

\* Python's None
None == [none |-> TRUE]

(***************************************************************************)
(* datetime / calendar helpers                                             *)
(***************************************************************************)
MonthLengths == <<31, 29, 31, 30, 31, 30, 31, 31, 30, 31, 30, 31>>

RECURSIVE MonthDay(_, _)
\* <<month, day of month>> of day number d of 2024, scanning from month m
MonthDay(d, m) ==
    IF d < MonthLengths[m] THEN <<m, d + 1>> ELSE MonthDay(d - MonthLengths[m], m + 1)

\* datetime.fromtimestamp(dt): the local date, hour, weekday and month
DateOf(dt) == dt \div 24
HourOf(dt) == dt % 24
Weekday(d) == d % 7
MonthOf(d) == MonthDay(d, 1)[1]

\* date.strftime("%Y-%m-%d"): the zero-padded year, month and day fields
Strftime(d) == <<2024, MonthDay(d, 1)[1], MonthDay(d, 1)[2]>>

(***************************************************************************)
(* Weather code mapping                                                    *)
(***************************************************************************)
WEATHER_CODE_MAP ==
    [k \in {"thunderstorm", "drizzle", "rain", "light rain", "moderate rain",
            "shower rain", "overcast clouds", "broken clouds",
            "scattered clouds", "few clouds", "clear sky"} |->
        CASE k \in {"thunderstorm", "drizzle", "rain", "light rain",
                    "moderate rain", "shower rain"} -> 1
          [] k \in {"overcast clouds", "broken clouds"} -> 2
          [] k = "scattered clouds" -> 3
          [] k = "few clouds" -> 4
          [] OTHER -> 5]

\* descriptions the forecast source is modelled to send
Descriptions == {"light rain", "Clear Sky", "misty haze", "few clouds"}

\* str.lower() on the modelled descriptions
Lower(desc) == IF desc = "Clear Sky" THEN "clear sky" ELSE desc

\* WEATHER_CODE_MAP.get(desc.lower(), 3)
WeatherCode(desc) ==
    IF Lower(desc) \in DOMAIN WEATHER_CODE_MAP THEN WEATHER_CODE_MAP[Lower(desc)] ELSE 3

(***************************************************************************)
(* Forecast samples of the pipeline run: one sample per timestamp, whose   *)
(* temperature (tenths of a degree) and description are fixed per day.     *)
(***************************************************************************)
TempAt(d) == (d % 5) * 65 - 20
DescAt(d) ==
    CASE d % 4 = 0 -> "light rain"
      [] d % 4 = 1 -> "Clear Sky"
      [] d % 4 = 2 -> "misty haze"
      [] OTHER -> "few clouds"

ForecastEntries ==
    {[dt |-> d * 24 + h, temp |-> TempAt(d), desc |-> DescAt(d)] :
        d \in SampleDays, h \in SampleHours}

(***************************************************************************)
(* Predictors: a loaded model is an opaque callable; it is modelled as a   *)
(* linear function of its features with the weights below (tenths).        *)
(***************************************************************************)
Weights(b, t, c, v, u) == [bias |-> b, wTemp |-> t, wCode |-> c, wVisitors |-> v, wCups |-> u]

VisitorCandidates == {Weights(-30, 1, 5, 0, 0), Weights(95, 0, 10, 0, 0)}
CupCandidates == {Weights(-60, 2, 15, 0, 0)}
BeerCandidate(item) ==
    IF item = "IPA" THEN Weights(-15, 0, 5, 2, 1) ELSE Weights(25, 0, -10, 1, 3)

\* model.predict(features), in tenths
ModelPredict(m, x) ==
    m.bias + m.wTemp * x.temp + m.wCode * x.code
           + m.wVisitors * x.visitors + m.wCups * x.cups

\* np.round: to the nearest integer, halves to the even neighbour
NpRound(x10) ==
    LET q == x10 \div 10
        r == x10 % 10
    IN  IF r < 5 THEN q
        ELSE IF r > 5 THEN q + 1
        ELSE IF q % 2 = 0 THEN q ELSE q + 1

Max(a, b) == IF a >= b THEN a ELSE b

AVG_VISITORS == 13
AVG_CUPS == 22
forecast_days_to_collect == 5

\* the dictionaries startup can leave behind: any subset of the keys loaded
CustomerModelDicts ==
    {f \in UNION {[ks -> VisitorCandidates \cup CupCandidates] :
                     ks \in SUBSET {"visitors", "cups"}} :
        \A k \in DOMAIN f :
            f[k] \in (IF k = "visitors" THEN VisitorCandidates ELSE CupCandidates)}
BeerModelDicts ==
    {[k \in ks |-> BeerCandidate(k)] : ks \in SUBSET Items}

(***************************************************************************)
(* get_order_recommendations                                               *)
(***************************************************************************)
EmptyDict == [k \in {} |-> 0]
NoResponse == [status |-> 0, error |-> "none"]
Error(status, kind) == [status |-> status, error |-> kind]

\* line 73: the run is refused when either dictionary is empty
ModelsNotReady(customer, beer) == DOMAIN customer = {} \/ DOMAIN beer = {}

\* line 108: the fixed closed day
IsClosedDayMutMonday(d) == Weekday(d) = 0
IsClosedDay(d) == Weekday(d) = 6

\* lines 104-106: a noon sample of a date not taken yet, below the horizon
IsCandidate(entry, processed) ==
    /\ HourOf(entry.dt) = 12
    /\ DateOf(entry.dt) \notin processed
    /\ Cardinality(processed) < forecast_days_to_collect

\* lines 112-121: the per-day feature record of a sample
FeatureRecord(entry) ==
    [date |-> DateOf(entry.dt),
     temp |-> entry.temp,
     weekday |-> Weekday(DateOf(entry.dt)),
     month |-> MonthOf(DateOf(entry.dt)),
     code |-> WeatherCode(entry.desc)]

\* line 150
NoForecastDataMutNever(list) == FALSE
NoForecastData(list) == list = <<>>

\* lines 163-173: the day-level predictions of one record
PredictedVisitors(customer, rec) ==
    IF "visitors" \in DOMAIN customer
    THEN NpRound(ModelPredict(customer["visitors"],
                              [temp |-> rec.temp, code |-> rec.code, visitors |-> 0, cups |-> 0]))
    ELSE AVG_VISITORS
PredictedCups(customer, rec) ==
    IF "cups" \in DOMAIN customer
    THEN NpRound(ModelPredict(customer["cups"],
                              [temp |-> rec.temp, code |-> rec.code, visitors |-> 0, cups |-> 0]))
    ELSE AVG_CUPS

\* lines 183-189: the item-level predictions of one record, from its day-level ones
PredictedBeers(beer, rec, visitors, cups) ==
    [k \in DOMAIN beer |->
        Max(0, NpRound(ModelPredict(beer[k],
                 [temp |-> rec.temp, code |-> rec.code, visitors |-> visitors, cups |-> cups])))]

Enrich(customer, beer, rec) ==
    LET v == PredictedVisitors(customer, rec)
        c == PredictedCups(customer, rec)
    IN  [date |-> rec.date, temp |-> rec.temp, weekday |-> rec.weekday,
         month |-> rec.month, code |-> rec.code,
         visitors |-> v, cups |-> c,
         predicted_beers |-> PredictedBeers(beer, rec, v, c)]

\* lines 197-198: the next slot weekday on or after today
NextOrderDayMutStrictlyAfter(today, slot) == today + ((slot - Weekday(today) + 6) % 7) + 1
NextOrderDay(today, slot) == today + ((slot - Weekday(today) + 7) % 7)

\* lines 219-220 and 233-234: the coverage window of an order day
MondayCoverageMutFourDays(order_day) == <<order_day + 1, order_day + 4>>
MondayCoverage(order_day) == <<order_day + 1, order_day + 3>>
ThursdayCoverage(order_day) == <<order_day + 1, order_day + 4>>

Windows(today) ==
    LET mon == NextOrderDay(today, 0)
        thu == NextOrderDay(today, 3)
    IN  [next_monday_order_day |-> mon,
         monday_order_start |-> MondayCoverage(mon)[1],
         monday_order_end |-> MondayCoverage(mon)[2],
         next_thursday_order_day |-> thu,
         thursday_order_start |-> ThursdayCoverage(thu)[1],
         thursday_order_end |-> ThursdayCoverage(thu)[2]]

\* lines 204-207: the rows of the period
InPeriodMutExclusiveEnd(d, start_date, end_date) == d >= start_date /\ d < end_date
InPeriod(d, start_date, end_date) == d >= start_date /\ d <= end_date

RECURSIVE SumColumn(_, _)
\* line 213: the sum of one item's predictions down the rows of the period
SumColumn(rows, k) ==
    IF rows = <<>> THEN 0
    ELSE (IF k \in DOMAIN Head(rows).predicted_beers
          THEN Head(rows).predicted_beers[k] ELSE 0) + SumColumn(Tail(rows), k)

\* lines 203-215
calculate_order_period_sumMutZeros(df, keys, start_date, end_date) ==
    LET period_df == SelectSeq(df, LAMBDA r : InPeriod(r.date, start_date, end_date))
    IN  [k \in keys |-> SumColumn(period_df, k)]
calculate_order_period_sum(df, keys, start_date, end_date) ==
    LET period_df == SelectSeq(df, LAMBDA r : InPeriod(r.date, start_date, end_date))
    IN  IF period_df # <<>>
        THEN [k \in keys |-> SumColumn(period_df, k)]
        ELSE EmptyDict

Recommendation(label, order_day, start_date, end_date, sums) ==
    [order_date |-> Strftime(order_day),
     order_day_label |-> label,
     coverage_period_start |-> Strftime(start_date),
     coverage_period_end |-> Strftime(end_date),
     ordered_beers |-> sums]

\* lines 221-243: the Monday recommendation is appended first, then the Thursday one
OrderRecommendationsMutThursdayFirst(df, keys, w) ==
    LET monday_order_sums ==
            calculate_order_period_sum(df, keys, w.monday_order_start, w.monday_order_end)
        thursday_order_sums ==
            calculate_order_period_sum(df, keys, w.thursday_order_start, w.thursday_order_end)
    IN  (IF DOMAIN thursday_order_sums # {}
         THEN <<Recommendation("Thu", w.next_thursday_order_day, w.thursday_order_start,
                               w.thursday_order_end, thursday_order_sums)>>
         ELSE <<>>)
        \o
        (IF DOMAIN monday_order_sums # {}
         THEN <<Recommendation("Mon", w.next_monday_order_day, w.monday_order_start,
                               w.monday_order_end, monday_order_sums)>>
         ELSE <<>>)
OrderRecommendations(df, keys, w) ==
    LET monday_order_sums ==
            calculate_order_period_sum(df, keys, w.monday_order_start, w.monday_order_end)
        thursday_order_sums ==
            calculate_order_period_sum(df, keys, w.thursday_order_start, w.thursday_order_end)
    IN  (IF DOMAIN monday_order_sums # {}
         THEN <<Recommendation("Mon", w.next_monday_order_day, w.monday_order_start,
                               w.monday_order_end, monday_order_sums)>>
         ELSE <<>>)
        \o
        (IF DOMAIN thursday_order_sums # {}
         THEN <<Recommendation("Thu", w.next_thursday_order_day, w.thursday_order_start,
                               w.thursday_order_end, thursday_order_sums)>>
         ELSE <<>>)

\* the run ends with an error response: nothing else is returned
Fail(status, kind) ==
    /\ pc' = "done"
    /\ response' = Error(status, kind)
    /\ UNCHANGED <<processed_dates, forecast_data_list, daily_forecast_df,
                   current_today_date, windows, order_recommendations_output>>

\* lines 69-97: the model check, the configuration check and the fetch.
\* fetch: what requests.get / raise_for_status / json() / get("list") give.
Request(api_key_set, fetch) ==
    /\ pc = "idle"
    /\ IF ModelsNotReady(CUSTOMER_MODELS, BEER_MODELS)
          THEN Fail(500, "models_not_ready")
       ELSE IF ~api_key_set
          THEN Fail(500, "configuration")
       ELSE IF fetch = "request_exception"
          THEN Fail(500, "fetch")
       ELSE /\ pc' = IF fetch = "list" THEN "loop" ELSE "after_loop"
            /\ response' = NoResponse
            /\ UNCHANGED <<processed_dates, forecast_data_list, daily_forecast_df,
                           current_today_date, windows, order_recommendations_output>>
    /\ UNCHANGED <<CUSTOMER_MODELS, BEER_MODELS, weatherVars>>

\* lines 98-126: one iteration of the normalizer loop
LoopEntry(entry) ==
    /\ pc = "loop"
    /\ LET current_date == DateOf(entry.dt)
       IN  IF IsCandidate(entry, processed_dates) /\ IsClosedDay(current_date)
              THEN UNCHANGED <<pc, processed_dates, forecast_data_list>>
           ELSE IF IsCandidate(entry, processed_dates)
              THEN /\ forecast_data_list' = Append(forecast_data_list, FeatureRecord(entry))
                   /\ processed_dates' = processed_dates \cup {current_date}
                   /\ pc' = IF Cardinality(processed_dates') >= forecast_days_to_collect
                             THEN "after_loop" ELSE "loop"
           ELSE /\ UNCHANGED <<processed_dates, forecast_data_list>>
                /\ pc' = IF Cardinality(processed_dates) >= forecast_days_to_collect
                          THEN "after_loop" ELSE "loop"
    /\ UNCHANGED <<CUSTOMER_MODELS, BEER_MODELS, daily_forecast_df, current_today_date,
                   windows, order_recommendations_output, response, weatherVars>>

\* lines 142-148: an entry without the expected fields raises inside the loop
LoopMalformedEntry ==
    /\ pc = "loop"
    /\ Fail(500, "processing")
    /\ UNCHANGED <<CUSTOMER_MODELS, BEER_MODELS, weatherVars>>

\* the list is exhausted
LoopEnd ==
    /\ pc = "loop"
    /\ pc' = "after_loop"
    /\ UNCHANGED <<CUSTOMER_MODELS, BEER_MODELS, processed_dates, forecast_data_list,
                   daily_forecast_df, current_today_date, windows,
                   order_recommendations_output, response, weatherVars>>

\* lines 150-257: the no-data check, the predictions, the schedule, the sums
Respond(today) ==
    /\ pc = "after_loop"
    /\ IF NoForecastData(forecast_data_list)
          THEN Fail(404, "no_forecast_data")
       ELSE /\ daily_forecast_df' =
                   [i \in 1 .. Len(forecast_data_list) |->
                       Enrich(CUSTOMER_MODELS, BEER_MODELS, forecast_data_list[i])]
            /\ current_today_date' = today
            /\ windows' = Windows(today)
            /\ order_recommendations_output' =
                   OrderRecommendations(daily_forecast_df', DOMAIN BEER_MODELS, windows')
            /\ response' = [status |-> 200, error |-> "none"]
            /\ pc' = "done"
            /\ UNCHANGED <<processed_dates, forecast_data_list>>
    /\ UNCHANGED <<CUSTOMER_MODELS, BEER_MODELS, weatherVars>>

\* the next request starts with fresh locals
NextRequest ==
    /\ pc = "done"
    /\ pc' = "idle"
    /\ processed_dates' = {}
    /\ forecast_data_list' = <<>>
    /\ daily_forecast_df' = <<>>
    /\ current_today_date' = None
    /\ windows' = None
    /\ order_recommendations_output' = <<>>
    /\ response' = NoResponse
    /\ UNCHANGED <<CUSTOMER_MODELS, BEER_MODELS, weatherVars>>

WeatherIdle ==
    /\ table = {}
    /\ wpc = "idle"
    /\ today_date = None
    /\ scanned = FALSE
    /\ target_weather_data = None
    /\ lastRun = None

\* lines 16-65: the dictionaries after startup, and no request yet
Init ==
    /\ CUSTOMER_MODELS \in CustomerModelDicts
    /\ BEER_MODELS \in BeerModelDicts
    /\ pc = "idle"
    /\ processed_dates = {}
    /\ forecast_data_list = <<>>
    /\ daily_forecast_df = <<>>
    /\ current_today_date = None
    /\ windows = None
    /\ order_recommendations_output = <<>>
    /\ response = NoResponse
    /\ WeatherIdle

Next ==
    \/ \E api_key_set \in BOOLEAN, fetch \in {"request_exception", "no_list", "list"} :
          Request(api_key_set, fetch)
    \/ \E entry \in ForecastEntries : LoopEntry(entry)
    \/ LoopMalformedEntry
    \/ LoopEnd
    \/ \E today \in Todays : Respond(today)
    \/ NextRequest

Spec == Init /\ [][Next]_vars

(***************************************************************************)
(* collect_weather_data                                                    *)
(***************************************************************************)
WEEKDAY_MAP == <<"Mon", "Tue", "Wed", "Thu", "Fri", "Sat", "Sun">>

\* samples the forecast source may send to the timer function
TimerEntries ==
    {[dt |-> d * 24 + h, temp |-> t, desc |-> x] :
        d \in TimerDays, h \in SampleHours, t \in {45, 180},
        x \in {"light rain", "Clear Sky", "misty haze"}}

\* line 65: today's noon sample
IsTodayNoon(entry, today) == DateOf(entry.dt) = today /\ HourOf(entry.dt) = 12

\* lines 69-75
TargetWeatherData(entry, today) ==
    [record_date |-> today,
     avg_temp_c |-> entry.temp,
     day_of_week |-> WEEKDAY_MAP[Weekday(DateOf(entry.dt)) + 1],
     month |-> MonthOf(DateOf(entry.dt)),
     weather_code |-> WeatherCode(entry.desc)]

\* lines 103-110: INSERT ... ON CONFLICT (record_date) DO UPDATE SET the four columns
UpsertMutKeepsWeatherCode(rows, row) ==
    IF \E r \in rows : r.record_date = row.record_date
    THEN {IF r.record_date = row.record_date
          THEN [r EXCEPT !.avg_temp_c = row.avg_temp_c,
                         !.day_of_week = row.day_of_week,
                         !.month = row.month]
          ELSE r : r \in rows}
    ELSE rows \cup {row}
Upsert(rows, row) ==
    IF \E r \in rows : r.record_date = row.record_date
    THEN {IF r.record_date = row.record_date
          THEN [r EXCEPT !.avg_temp_c = row.avg_temp_c,
                         !.day_of_week = row.day_of_week,
                         !.month = row.month,
                         !.weather_code = row.weather_code]
          ELSE r : r \in rows}
    ELSE rows \cup {row}

\* what the run leaves in the log when it returns
RunLog(today, target, outcome, conflict, fetches, connects) ==
    [today |-> today, target |-> target, outcome |-> outcome, conflict |-> conflict,
     fetches |-> fetches, connects |-> connects]

\* lines 36-59: the settings check, today, and the fetch
TimerStart(settings, today, fetch) ==
    /\ wpc = "idle"
    /\ today_date' = today
    /\ target_weather_data' = None
    /\ scanned' = FALSE
    /\ table' = table
    /\ IF ~settings
          THEN /\ wpc' = "idle"
               /\ lastRun' = RunLog(today, None, "settings_missing", FALSE, 0, 0)
       ELSE IF fetch = "request_exception"
          THEN /\ wpc' = "idle"
               /\ lastRun' = RunLog(today, None, "fetch_error", FALSE, 1, 0)
       ELSE /\ wpc' = IF fetch = "list" THEN "scan" ELSE "store"
            /\ lastRun' = lastRun
    /\ UNCHANGED pipelineVars

\* lines 62-77: one iteration of the search for today's noon sample
TimerScanEntry(entry) ==
    /\ wpc = "scan"
    /\ scanned' = TRUE
    /\ IF IsTodayNoon(entry, today_date)
          THEN /\ target_weather_data' = TargetWeatherData(entry, today_date)
               /\ wpc' = "store"
          ELSE UNCHANGED <<target_weather_data, wpc>>
    /\ UNCHANGED <<table, today_date, lastRun, pipelineVars>>

\* lines 86-88: an entry without the expected fields raises inside the loop
TimerScanMalformedEntry ==
    /\ wpc = "scan"
    /\ wpc' = "idle"
    /\ lastRun' = RunLog(today_date, None, "fetch_error", FALSE, 1, 0)
    /\ UNCHANGED <<table, today_date, scanned, target_weather_data, pipelineVars>>

\* lines 79-81: the non-empty list is exhausted without a noon sample of today
TimerScanEnd ==
    /\ wpc = "scan"
    /\ scanned
    /\ wpc' = "idle"
    /\ lastRun' = RunLog(today_date, None, "no_noon_sample", FALSE, 1, 0)
    /\ UNCHANGED <<table, today_date, scanned, target_weather_data, pipelineVars>>

\* lines 90-134: the storage step.  db: what connect / execute / commit do.
\* Without a target (the response held no list) building the row raises
\* after the connection is open, and the transaction is rolled back.
TimerStore(db) ==
    /\ wpc = "store"
    /\ wpc' = "idle"
    /\ IF db = "ok" /\ target_weather_data # None
          THEN /\ table' = Upsert(table, target_weather_data)
               /\ lastRun' = RunLog(today_date, target_weather_data, "saved",
                                    \E r \in table : r.record_date = today_date, 1, 1)
          ELSE /\ table' = table
               /\ lastRun' = RunLog(today_date, target_weather_data, "storage_error",
                                    FALSE, 1, 1)
    /\ UNCHANGED <<today_date, scanned, target_weather_data, pipelineVars>>

PipelineIdle ==
    /\ CUSTOMER_MODELS = EmptyDict
    /\ BEER_MODELS = EmptyDict
    /\ pc = "idle"
    /\ processed_dates = {}
    /\ forecast_data_list = <<>>
    /\ daily_forecast_df = <<>>
    /\ current_today_date = None
    /\ windows = None
    /\ order_recommendations_output = <<>>
    /\ response = NoResponse

\* the empty table, and no timer run yet
WeatherInit == PipelineIdle /\ WeatherIdle

WeatherNext ==
    \/ \E settings \in BOOLEAN, today \in TimerDays,
          fetch \in {"request_exception", "no_list", "list"} :
          TimerStart(settings, today, fetch)
    \/ \E entry \in TimerEntries : TimerScanEntry(entry)
    \/ TimerScanMalformedEntry
    \/ TimerScanEnd
    \/ \E db \in {"connect_error", "execute_error", "commit_error", "ok"} : TimerStore(db)

WeatherSpec == WeatherInit /\ [][WeatherNext]_vars

(***************************************************************************)
(* Properties                                                              *)
(***************************************************************************)
Succeeded == pc = "done" /\ response.status = 200

\* comparison of two "%Y-%m-%d" strings, field by field
DateLeq(a, b) ==
    \/ a[1] < b[1]
    \/ a[1] = b[1] /\ a[2] < b[2]
    \/ a[1] = b[1] /\ a[2] = b[2] /\ a[3] <= b[3]

RECURSIVE SetSum(_, _)
\* the sum of f[x] over the elements x of the finite set S
SetSum(S, f) ==
    IF S = {} THEN 0
    ELSE LET x == CHOOSE y \in S : TRUE IN f[x] + SetSum(S \ {x}, f)

\* the dates of the enriched records that lie in [start_date, end_date]
DatesIn(start_date, end_date) ==
    {daily_forecast_df[i].date : i \in DOMAIN daily_forecast_df}
        \cap (start_date .. end_date)

\* the enriched record of a date
RecordOf(d) ==
    daily_forecast_df[CHOOSE i \in DOMAIN daily_forecast_df : daily_forecast_df[i].date = d]

\* the coverage window, as dates, of the slot with the given label
SlotWindow(label) ==
    IF label = "Mon"
    THEN [order_day |-> windows.next_monday_order_day,
          start_date |-> windows.monday_order_start,
          end_date |-> windows.monday_order_end]
    ELSE [order_day |-> windows.next_thursday_order_day,
          start_date |-> windows.thursday_order_start,
          end_date |-> windows.thursday_order_end]

Emitted(label) ==
    \E i \in DOMAIN order_recommendations_output :
        order_recommendations_output[i].order_day_label = label

\* C1: the per-day feature records built by the normalizer loop never hold two
\* records of the same calendar date and never hold a Sunday (weekday 6).
C1_NoDuplicateNoClosedDay ==
    /\ \A i, j \in DOMAIN forecast_data_list :
          i # j => forecast_data_list[i].date # forecast_data_list[j].date
    /\ \A i \in DOMAIN forecast_data_list :
          /\ Weekday(forecast_data_list[i].date) # 6
          /\ forecast_data_list[i].weekday # 6

\* the loop has taken a Saturday and the Monday after it: it went past a Sunday
C1_Witness ==
    \E i, j \in DOMAIN forecast_data_list :
        /\ Weekday(forecast_data_list[i].date) = 5
        /\ forecast_data_list[j].date = forecast_data_list[i].date + 2

\* C2: each slot's order date is the earliest date on or after today whose
\* weekday is the slot weekday (Monday = 0, Thursday = 3): it is 0..6 days
\* ahead, and 0 days ahead exactly when today is the slot weekday.  The coverage
\* is order_date+1..order_date+3 for Monday and order_date+1..order_date+4 for
\* Thursday.  On a Wednesday the Monday order date is strictly after today and
\* the Thursday order date is today+1.
C2_NextSlotOnOrAfterToday ==
    Succeeded =>
        LET t == current_today_date
            mon == windows.next_monday_order_day
            thu == windows.next_thursday_order_day
        IN  /\ mon - t \in 0 .. 6 /\ Weekday(mon) = 0
            /\ thu - t \in 0 .. 6 /\ Weekday(thu) = 3
            /\ \A d \in t .. (mon - 1) : Weekday(d) # 0
            /\ \A d \in t .. (thu - 1) : Weekday(d) # 3
            /\ (mon = t) <=> (Weekday(t) = 0)
            /\ (thu = t) <=> (Weekday(t) = 3)
            /\ windows.monday_order_start = mon + 1
            /\ windows.monday_order_end = mon + 3
            /\ windows.thursday_order_start = thu + 1
            /\ windows.thursday_order_end = thu + 4
            /\ Weekday(t) = 2 => (mon > t /\ thu = t + 1)

\* a successful run on a Wednesday
C2_Witness == Succeeded /\ Weekday(current_today_date) = 2

\* C3: every emitted recommendation's quantity of every known item is the sum
\* of that item's predicted quantity over exactly the enriched records whose
\* date lies in the inclusive coverage window; it is a non-negative integer,
\* whatever the order of the records, and the keys are the full known item set.
C3_WindowSums ==
    Succeeded =>
        \A i \in DOMAIN order_recommendations_output :
            LET rec == order_recommendations_output[i]
                w == SlotWindow(rec.order_day_label)
                dates == DatesIn(w.start_date, w.end_date)
            IN  /\ rec.coverage_period_start = Strftime(w.start_date)
                /\ rec.coverage_period_end = Strftime(w.end_date)
                /\ DOMAIN rec.ordered_beers = DOMAIN BEER_MODELS
                /\ \A k \in DOMAIN BEER_MODELS :
                      /\ rec.ordered_beers[k] \in Nat
                      /\ rec.ordered_beers[k] =
                            SetSum(dates, [d \in dates |-> RecordOf(d).predicted_beers[k]])

\* a recommendation summing two or more records, not in date order, with a
\* record outside its window and a positive quantity
C3_Witness ==
    /\ Succeeded
    /\ \E i \in DOMAIN order_recommendations_output :
          LET rec == order_recommendations_output[i]
              w == SlotWindow(rec.order_day_label)
          IN  /\ Cardinality(DatesIn(w.start_date, w.end_date)) >= 2
              /\ \E k \in DOMAIN rec.ordered_beers : rec.ordered_beers[k] > 0
              /\ \E j \in DOMAIN daily_forecast_df :
                    daily_forecast_df[j].date = w.end_date
              /\ \E j \in DOMAIN daily_forecast_df :
                    daily_forecast_df[j].date \notin w.start_date .. w.end_date
    /\ \E i, j \in DOMAIN daily_forecast_df :
          i < j /\ daily_forecast_df[i].date > daily_forecast_df[j].date

\* C4: in a successful response a window's recommendation is present if and only
\* if at least one enriched record has its date inside the window's inclusive
\* coverage range; a window with no such record is omitted, not reported as an
\* error and not emitted with zero quantities.
C4_EmittedIffCovered ==
    Succeeded =>
        /\ \A label \in {"Mon", "Thu"} :
              Emitted(label) <=>
                  DatesIn(SlotWindow(label).start_date, SlotWindow(label).end_date) # {}
        /\ \A i, j \in DOMAIN order_recommendations_output :
              order_recommendations_output[i].order_day_label =
                  order_recommendations_output[j].order_day_label => i = j
        /\ \A i \in DOMAIN order_recommendations_output :
              order_recommendations_output[i].order_day_label \in {"Mon", "Thu"}

\* a successful run that emits one window and omits the other
C4_Witness == Succeeded /\ Len(order_recommendations_output) = 1

C6_RejectedOnlyIfAllAbsent ==
    response.error = "models_not_ready" =>
        (DOMAIN CUSTOMER_MODELS = {} /\ DOMAIN BEER_MODELS = {})

\* C7: the stored predicted visitor count and predicted total unit count of
\* every day record are non-negative: the model output rounded to the nearest
\* integer and clamped at 0.
C7_DayLevelClampedAtZero ==
    \A i \in DOMAIN daily_forecast_df :
        /\ daily_forecast_df[i].visitors >= 0
        /\ daily_forecast_df[i].cups >= 0

\* C8: a run whose fetch succeeded and whose normalizer collected no record ends
\* with the no-data error, status 404, and never with a successful response;
\* a failed fetch ends with a different response, status 500.
C8_NoDataIsNotFound ==
    /\ [](response.status = 200 => forecast_data_list # <<>>)
    /\ [](response.error = "fetch" => response.status = 500)
    /\ [][(pc = "after_loop" /\ forecast_data_list = <<>>) =>
            (/\ pc' = "done"
             /\ response' = Error(404, "no_forecast_data")
             /\ order_recommendations_output' = <<>>)]_vars

\* a run that ended with the no-data error
C8_Witness ==
    /\ pc = "done"
    /\ response = Error(404, "no_forecast_data")
    /\ forecast_data_list = <<>>

\* C9: after any sequence of timer runs the table holds at most one row per
\* date; a run that saved leaves, in the row of its date, all the non-key values
\* it fetched; rows change only in a step that saves, and only the row of that
\* run's date; a run fetches at most once and opens at most one connection.
C9_UpsertPerDate ==
    /\ [](/\ \A r1, r2 \in table : r1.record_date = r2.record_date => r1 = r2
          /\ lastRun # None =>
                /\ lastRun.fetches <= 1 /\ lastRun.connects <= 1
                /\ lastRun.outcome = "saved" =>
                      \E r \in table :
                          /\ r.record_date = lastRun.today
                          /\ r = lastRun.target)
    /\ [][table' # table =>
            /\ wpc = "store" /\ wpc' = "idle"
            /\ lastRun'.outcome = "saved"
            /\ {r \in table' : r.record_date # today_date}
                  = {r \in table : r.record_date # today_date}]_vars

\* a run that saved over an existing row while another date's row exists
C9_Witness ==
    /\ lastRun # None
    /\ lastRun.outcome = "saved"
    /\ lastRun.conflict
    /\ Cardinality(table) >= 2

\* C10: the Monday and Thursday coverage windows of one run share no date,
\* together they are 7 consecutive dates, and each of them is after today.
C10_WindowsPartitionAWeek ==
    Succeeded =>
        LET A == windows.monday_order_start .. windows.monday_order_end
            B == windows.thursday_order_start .. windows.thursday_order_end
        IN  /\ A \cap B = {}
            /\ Cardinality(A \cup B) = 7
            /\ \E first \in A \cup B : A \cup B = first .. (first + 6)
            /\ \A d \in A \cup B : d > current_today_date

\* a run in which the Thursday order day comes before the Monday order day
C10_Witness ==
    /\ Succeeded
    /\ windows.next_thursday_order_day < windows.next_monday_order_day

====
